---- MODULE Spec2Model ----
(***************************************************************************)
(* A model of the face-activity training scripts:                          *)
(*   ml_models/face_activity/model.py                  (load_data,         *)
(*       apply_augmentation, create_data_generator, train_and_evaluate,    *)
(*       export_to_tflite)                                                 *)
(*   ml_models/face_activity/face_tracking_analysis.py                     *)
(*       (select_random_walking_sequences)                                 *)
(*                                                                         *)
(* Every function is a small state machine of its own; the module has one  *)
(* specification per function (SpecSelect, SpecLoad, SpecAug, SpecGen,     *)
(* SpecTrain).  The variables of the functions a specification does not    *)
(* run stay at their idle values.                                          *)
(*                                                                         *)
(* Numbers.  Coordinates are fixed-point integers.  A Python exception is  *)
(* a final value of the function's pc ("raised").  A draw from the random  *)
(* generator is a choice with \E over the values the draw can return.      *)
(***************************************************************************)
EXTENDS Integers, Sequences, FiniteSets, TLC

VARIABLES
    \* select_random_walking_sequences(data, n)
    sel_data, sel_n, sel_pc, sel_result, sel_warned,
    \* load_data(file_path)
    ld_data, ld_i, ld_X, ld_y, ld_pc, ld_result,
    \* apply_augmentation(X, y, augmentation_factor)
    aug_X, aug_y, aug_factor, aug_rng, aug_pc, aug_k, X_augmented, y_augmented,
    aug_idx, aug_warp, aug_sample, n_segments, new_order, aug_result,
    \* create_data_generator(X, y, batch_size, augment_online)
    gen_X, gen_y, batch_size, augment_online, indices, gen_i, gen_pc, gen_batch,
    gen_pass, gen_epoch, gen_waiting,
    \* train_and_evaluate()
    tr_pc, tr_shape, tr_split, tr_aug_n, tr_steps, tr_model, tr_files, tr_log,
    tr_raised_in, tr_result

selVars  == <<sel_data, sel_n, sel_pc, sel_result, sel_warned>>
loadVars == <<ld_data, ld_i, ld_X, ld_y, ld_pc, ld_result>>
augVars  == <<aug_X, aug_y, aug_factor, aug_rng, aug_pc, aug_k, X_augmented,
              y_augmented, aug_idx, aug_warp, aug_sample, n_segments, new_order,
              aug_result>>
genVars  == <<gen_X, gen_y, batch_size, augment_online, indices, gen_i, gen_pc,
              gen_batch, gen_pass, gen_epoch, gen_waiting>>
trainVars == <<tr_pc, tr_shape, tr_split, tr_aug_n, tr_steps, tr_model, tr_files,
               tr_log, tr_raised_in, tr_result>>
vars     == <<selVars, loadVars, augVars, genVars, trainVars>>

----------------------------------------------------------------------------
(* Helpers on sequences                                                    *)

Range(s) == {s[k] : k \in 1..Len(s)}

\* The sequences over S of length 0..n.
SeqsUpTo(S, n) == UNION {[1..k -> S] : k \in 0..n}

\* The sequences of k distinct elements of S.
InjectiveSeqs(S, k) == {s \in [1..k -> S] : \A a, b \in 1..k : a # b => s[a] # s[b]}

Min(a, b) == IF a < b THEN a ELSE b

RECURSIVE GCD(_, _)
GCD(a, b) == IF b = 0 THEN a ELSE GCD(b, a % b)

----------------------------------------------------------------------------
(* face_tracking_analysis.py: select_random_walking_sequences              *)

\* Bounds of the selection model.
MaxData == 4
MaxRequest == 10

ActivityTypes == {"walking", "standing"}

\* [seq for seq in data if seq["activityType"] == "walking"], as the list of
\* the positions in data of the sequences kept (a record is identified by
\* its position: two records of data may be equal).
RECURSIVE WalkingSequences(_)
WalkingSequences(data) ==
    IF data = <<>> THEN <<>>
    ELSE LET front == WalkingSequences(SubSeq(data, 1, Len(data) - 1))
         IN  IF data[Len(data)] = "walking"
             THEN Append(front, Len(data))
             ELSE front

\* The mutated guard: one short of n is not noticed.
TooFewWalkingOffByOne(walking_sequences, n) == Len(walking_sequences) + 1 < n

\* if len(walking_sequences) < n
TooFewWalking(walking_sequences, n) == Len(walking_sequences) < n

\* random.sample(population, k): k distinct positions of the population in
\* any order; ValueError when k is larger than the population.
RandomSample(population, k) ==
    IF k > Len(population)
    THEN {[status |-> "raised", value |-> <<>>]}
    ELSE {[status |-> "returned", value |-> [j \in 1..k |-> population[p[j]]]] :
            p \in InjectiveSeqs(1..Len(population), k)}

SelInit ==
    /\ sel_data \in SeqsUpTo(ActivityTypes, MaxData)
    /\ sel_n \in 0..MaxRequest
    /\ sel_pc = "call"
    /\ sel_result = <<>>
    /\ sel_warned = FALSE

SelIdle ==
    /\ sel_data = <<>>
    /\ sel_n = 0
    /\ sel_pc = "idle"
    /\ sel_result = <<>>
    /\ sel_warned = FALSE

\* The branch that prints the warning and returns every walking sequence.
SelectAll ==
    /\ sel_pc = "call"
    /\ TooFewWalking(WalkingSequences(sel_data), sel_n)
    /\ sel_warned' = TRUE
    /\ sel_result' = WalkingSequences(sel_data)
    /\ sel_pc' = "returned"
    /\ UNCHANGED <<sel_data, sel_n, loadVars, augVars, genVars, trainVars>>

\* return random.sample(walking_sequences, n)
SelectSample ==
    /\ sel_pc = "call"
    /\ ~TooFewWalking(WalkingSequences(sel_data), sel_n)
    /\ \E r \in RandomSample(WalkingSequences(sel_data), sel_n) :
          /\ sel_result' = r.value
          /\ sel_pc' = r.status
    /\ UNCHANGED <<sel_data, sel_n, sel_warned, loadVars, augVars, genVars, trainVars>>

----------------------------------------------------------------------------
(* model.py: load_data                                                     *)

\* Bound of the loader model: the number of records in the file.
MaxRecords == 3

\* Raw coordinates are integers in units of 1/Unit: Unit stands for 1.0.
Unit == 2

\* The numbers of coordinate pairs a record has, and the lengths it declares.
CoordLengths == 1..2

\* The coordinate lists of a given length: one already inside [0, 1]
\* ((0.5, 1.0) at every step), one in raw pixels, above 1.0, and one in raw
\* pixels of a face partly left of the frame (x below 0).
CoordLists(len) ==
    {[t \in 1..len |-> <<1, 2>>],
     [t \in 1..len |-> <<t + 2, 1>>],
     [t \in 1..len |-> <<-3, t + 2>>]}

Records ==
    UNION {[coordinates : CoordLists(len),
            sequenceLength : CoordLengths,
            activityType : ActivityTypes] : len \in CoordLengths}

\* A value of the feature tensor is the fraction <<numerator, denominator>>
\* in lowest terms.
Frac(n, d) == LET g == GCD(n, d) IN <<n \div g, d \div g>>

\* np.max(coords): the largest entry of either channel.
CoordMax(coords) ==
    CHOOSE m \in {coords[t][c] : t \in 1..Len(coords), c \in 1..2} :
        \A t \in 1..Len(coords), c \in 1..2 : coords[t][c] <= m

\* if np.max(coords) > 1.0: coords = coords / np.max(coords)
Normalize(coords) ==
    IF CoordMax(coords) > Unit
    THEN [t \in 1..Len(coords) |->
            <<Frac(coords[t][1], CoordMax(coords)), Frac(coords[t][2], CoordMax(coords))>>]
    ELSE [t \in 1..Len(coords) |->
            <<Frac(coords[t][1], Unit), Frac(coords[t][2], Unit)>>]

\* if coords.shape[0] == entry['sequenceLength']
LengthMatches(entry) == Len(entry.coordinates) = entry.sequenceLength

\* LabelEncoder.classes_: the distinct labels, sorted ("standing" < "walking").
Classes(y) ==
    (IF "standing" \in Range(y) THEN <<"standing">> ELSE <<>>)
    \o (IF "walking" \in Range(y) THEN <<"walking">> ELSE <<>>)

\* label_encoder.fit_transform(y): the index (from 0) of each label in classes_.
Encode(y) ==
    [k \in 1..Len(y) |->
        (CHOOSE c \in 1..Len(Classes(y)) : Classes(y)[c] = y[k]) - 1]

\* np.max(y) + 1 of a non-empty list of class indices.
NumClasses(y_encoded) ==
    1 + CHOOSE m \in Range(y_encoded) : \A v \in Range(y_encoded) : v <= m

\* to_categorical(y_encoded): one row per label, 1 at the label's index.
ToCategorical(y_encoded) ==
    [k \in 1..Len(y_encoded) |->
        [c \in 1..NumClasses(y_encoded) |-> IF c - 1 = y_encoded[k] THEN 1 ELSE 0]]

\* The list X holds sequences of different lengths.
Ragged(X) == \E a, b \in 1..Len(X) : Len(X[a]) # Len(X[b])

NoResult == [X |-> <<>>, y |-> <<>>, classes |-> <<>>, dtype |-> "none"]

LoadInit ==
    /\ ld_data \in SeqsUpTo(Records, MaxRecords)
    /\ ld_i = 1
    /\ ld_X = <<>>
    /\ ld_y = <<>>
    /\ ld_pc = "loop"
    /\ ld_result = NoResult

LoadIdle ==
    /\ ld_data = <<>>
    /\ ld_i = 0
    /\ ld_X = <<>>
    /\ ld_y = <<>>
    /\ ld_pc = "idle"
    /\ ld_result = NoResult

\* One pass of the for loop over an entry that fails the length check.
LoadSkip ==
    /\ ld_pc = "loop"
    /\ ld_i <= Len(ld_data)
    /\ ~LengthMatches(ld_data[ld_i])
    /\ ld_i' = ld_i + 1
    /\ UNCHANGED <<ld_data, ld_X, ld_y, ld_pc, ld_result, selVars, augVars, genVars, trainVars>>

\* One pass of the for loop over an entry that passes it.
LoadKeep ==
    /\ ld_pc = "loop"
    /\ ld_i <= Len(ld_data)
    /\ LengthMatches(ld_data[ld_i])
    /\ ld_X' = Append(ld_X, Normalize(ld_data[ld_i].coordinates))
    /\ ld_y' = Append(ld_y, ld_data[ld_i].activityType)
    /\ ld_i' = ld_i + 1
    /\ UNCHANGED <<ld_data, ld_pc, ld_result, selVars, augVars, genVars, trainVars>>

\* After the loop, X = np.array(X) over sequences of different lengths:
\* numpy from 1.24 on raises ValueError (inhomogeneous shape).
LoadRaggedError ==
    /\ ld_pc = "loop"
    /\ ld_i > Len(ld_data)
    /\ Ragged(ld_X)
    /\ ld_pc' = "raised"
    /\ UNCHANGED <<ld_data, ld_i, ld_X, ld_y, ld_result, selVars, augVars, genVars, trainVars>>

\* After the loop, with nothing kept: to_categorical takes np.max of an empty
\* array, which raises ValueError.
LoadEmptyError ==
    /\ ld_pc = "loop"
    /\ ld_i > Len(ld_data)
    /\ ld_y = <<>>
    /\ ld_pc' = "raised"
    /\ UNCHANGED <<ld_data, ld_i, ld_X, ld_y, ld_result, selVars, augVars, genVars, trainVars>>

\* After the loop: np.array(X), the label encoding, and the return.  Over
\* sequences of different lengths an older numpy builds a one-dimensional
\* array of objects instead of raising.
LoadReturn ==
    /\ ld_pc = "loop"
    /\ ld_i > Len(ld_data)
    /\ ld_y # <<>>
    /\ ld_result' = [X |-> ld_X,
                     y |-> ToCategorical(Encode(ld_y)),
                     classes |-> Classes(ld_y),
                     dtype |-> IF Ragged(ld_X) THEN "object" ELSE "float"]
    /\ ld_pc' = "returned"
    /\ UNCHANGED <<ld_data, ld_i, ld_X, ld_y, selVars, augVars, genVars, trainVars>>

----------------------------------------------------------------------------
(* model.py: apply_augmentation                                            *)

\* Bounds of the augmentation model: the number of samples of the runs that
\* vary it, and the sequence length of the runs that vary that.
MaxSamples == 3
MaxSeqLen == 30

\* Feature values are integers in units of 1/1000.  Sample i (from 1) of an
\* input of sequence length L has, at step t, the row <<x, x + 10>> with
\* x = 20 * ((i - 1) * L + t): every row of the input is different.
InputX(n, L) ==
    [i \in 1..n |-> [t \in 1..L |->
        <<20 * ((i - 1) * L + t), 20 * ((i - 1) * L + t) + 10>>]]

\* The labels: one-hot rows over two classes, alternating.
InputY(n) == [i \in 1..n |-> IF i % 2 = 1 THEN <<1, 0>> ELSE <<0, 1>>]

\* What the random generator may return in a run: warp factors in percent
\* (np.random.uniform(0.8, 1.2)), pairs of scale factors in tenths
\* (np.random.uniform(0.7, 1.3, size=n_features)), and noise arrays
\* (np.random.normal) as the value added at even and at odd steps.
NarrowDraws == [warp |-> {80, 120}, scale |-> {<<7, 13>>}, noise |-> {<<10, -10>>}]

WideDraws ==
    [warp  |-> {80, 90, 99, 100, 110, 120},
     scale |-> {<<7, 13>>, <<13, 7>>, <<10, 10>>},
     noise |-> {<<10, -10>>, <<-5, 20>>}]

\* The calls modelled: up to MaxSamples samples of 1, 14 or 15 steps with
\* the factors 1..3, and one sample of every length up to MaxSeqLen with the
\* factor 5 (one synthetic sample per technique).
AugInputs ==
    {[n |-> n, f |-> f, L |-> L, rng |-> NarrowDraws] :
        n \in 0..MaxSamples, f \in 1..3, L \in {1, 14, 15}}
    \cup {[n |-> 1, f |-> 5, L |-> L, rng |-> WideDraws] : L \in 1..MaxSeqLen}

\* n_samples, seq_length, n_features = X.shape
NSamples == Len(aug_X)

\* samples_per_technique = int(n_samples * (augmentation_factor - 1) / 4)
SamplesPerTechnique(n_samples, augmentation_factor) ==
    (n_samples * (augmentation_factor - 1)) \div 4

\* Where control is after iteration k (from 0) of a technique's loop.
AfterIteration(pc, k, spt) ==
    IF k + 1 < spt THEN <<pc, k + 1>>
    ELSE IF pc = "warp" THEN <<"scale", 0>>
    ELSE IF pc = "scale" THEN <<"jitter", 0>>
    ELSE IF pc = "jitter" THEN <<"perm", 0>>
    ELSE <<"concat", 0>>

\* len(warped_steps) = int(seq_length * warp_factor), the factor in percent.
WarpedLen(seq_length, warp_factor) == (seq_length * warp_factor) \div 100

\* min(len(warped_steps), len(sample)): the length of the interpolation grid.
GridLen(seq_length, warp_factor) == Min(WarpedLen(seq_length, warp_factor), seq_length)

\* len(sample[:k]) for k >= 0.
SliceLen(sample, k) == Min(k, Len(sample))

\* The mutated interpolation: the grid ends at seq_length instead of
\* seq_length - 1.
InterpOverLength(t, fp, L, m) ==
    IF m = 1 \/ L = 1 THEN fp[1]
    ELSE LET q == ((t - 1) * (m - 1)) \div L
             r == ((t - 1) * (m - 1)) % L
         IN  IF q + 1 >= m THEN fp[m]
             ELSE fp[q + 1] + (r * (fp[q + 2] - fp[q + 1])) \div L

\* np.interp(x, xp, fp) at x = t - 1 for the grid xp = np.linspace(0, L-1, m)
\* and fp the first m values of a channel: xp[j] = (j-1)(L-1)/(m-1), so with
\* q = (t-1)(m-1) div (L-1) and r the remainder the value is
\* fp[q+1] + r (fp[q+2] - fp[q+1]) / (L-1), rounded down to the unit.  A grid
\* of one point gives fp[1] everywhere.
Interp(t, fp, L, m) ==
    IF m = 1 \/ L = 1 THEN fp[1]
    ELSE LET q == ((t - 1) * (m - 1)) \div (L - 1)
             r == ((t - 1) * (m - 1)) % (L - 1)
         IN  IF q + 1 >= m THEN fp[m]
             ELSE fp[q + 1] + (r * (fp[q + 2] - fp[q + 1])) \div (L - 1)

\* The warped sample: each channel interpolated back onto the original steps.
TimeWarped(sample, warp_factor) ==
    LET L == Len(sample)
        m == GridLen(L, warp_factor)
    IN  [t \in 1..L |->
            <<Interp(t, [j \in 1..SliceLen(sample, m) |-> sample[j][1]], L, m),
              Interp(t, [j \in 1..SliceLen(sample, m) |-> sample[j][2]], L, m)>>]

\* sample[:, i] *= scale_factors[i], the factors in tenths.
Scaled(sample, scale_factors) ==
    [t \in 1..Len(sample) |->
        <<(sample[t][1] * scale_factors[1]) \div 10,
          (sample[t][2] * scale_factors[2]) \div 10>>]

\* sample += noise
Jittered(sample, noise) ==
    [t \in 1..Len(sample) |->
        <<sample[t][1] + noise[1 + (t % 2)], sample[t][2] + noise[1 + (t % 2)]>>]

\* The mutated copy: sample is X[idx] itself, so what is written to sample is
\* written to X.
SourceAfterNoCopy(X, idx, sample) == [X EXCEPT ![idx] = sample]

\* sample = X[idx].copy(): X after sample was changed in place.
SourceAfter(X, idx, sample) == X

\* np.random.randint(2, min(6, seq_length//5)): the values it can return;
\* none when the upper end is not above 2, and randint raises ValueError.
SegmentCounts(seq_length) == 2..(Min(6, seq_length \div 5) - 1)

\* np.linspace(0, seq_length, n_segments+1, dtype=int)[j], j from 0.
SegmentPoint(seq_length, nseg, j) == (j * seq_length) \div nseg

\* segments[i] = sample[start:end], i from 1.
Segment(sample, nseg, i) ==
    SubSeq(sample, SegmentPoint(Len(sample), nseg, i - 1) + 1,
                   SegmentPoint(Len(sample), nseg, i))

\* The segments written one after the other in the order given, into an
\* array of zeros as long as the sample.
RECURSIVE Reassembled(_, _, _)
Reassembled(sample, nseg, order) ==
    IF order = <<>> THEN <<>>
    ELSE Reassembled(sample, nseg, SubSeq(order, 1, Len(order) - 1))
         \o Segment(sample, nseg, order[Len(order)])

\* original_order = list(range(n_segments)), from 1 here.
OriginalOrder(nseg) == [i \in 1..nseg |-> i]

\* What np.random.shuffle can leave in a list of nseg elements.
Shuffles(nseg) == InjectiveSeqs(1..nseg, nseg)

\* The mutated loop test: the loop runs while the order has changed, so it is
\* not entered at all.
ShuffleAgainInverted(order, original_order) == order # original_order

\* while new_order == original_order
ShuffleAgain(order, original_order) == order = original_order

NoWarp == [factor |-> 0, steps |-> 0, grid |-> 0, slice |-> 0]

AugInit ==
    \E c \in AugInputs :
        /\ aug_X = InputX(c.n, c.L)
        /\ aug_y = InputY(c.n)
        /\ aug_factor = c.f
        /\ aug_rng = c.rng
        /\ aug_pc = IF SamplesPerTechnique(c.n, c.f) > 0 THEN "warp" ELSE "concat"
        /\ aug_k = 0
        /\ X_augmented = <<>>
        /\ y_augmented = <<>>
        /\ aug_idx = <<>>
        /\ aug_warp = NoWarp
        /\ aug_sample = <<>>
        /\ n_segments = 0
        /\ new_order = <<>>
        /\ aug_result = [X |-> <<>>, y |-> <<>>]

AugIdle ==
    /\ aug_X = <<>>
    /\ aug_y = <<>>
    /\ aug_factor = 0
    /\ aug_rng = NarrowDraws
    /\ aug_pc = "idle"
    /\ aug_k = 0
    /\ X_augmented = <<>>
    /\ y_augmented = <<>>
    /\ aug_idx = <<>>
    /\ aug_warp = NoWarp
    /\ aug_sample = <<>>
    /\ n_segments = 0
    /\ new_order = <<>>
    /\ aug_result = [X |-> <<>>, y |-> <<>>]

\* The loop control after an iteration of the loop at aug_pc.
AugAdvance ==
    LET to == AfterIteration(aug_pc, aug_k, SamplesPerTechnique(NSamples, aug_factor))
    IN  /\ aug_pc' = to[1]
        /\ aug_k' = to[2]

\* The locals of a time-warp iteration: the factor, len(warped_steps), the
\* length of the grid and the length of the slice of the sample.
WarpLocals(sample, warp_factor) ==
    [factor |-> warp_factor,
     steps  |-> WarpedLen(Len(sample), warp_factor),
     grid   |-> GridLen(Len(sample), warp_factor),
     slice  |-> SliceLen(sample, GridLen(Len(sample), warp_factor))]

\* 1. Time warping: one iteration that appends a warped sample.
TimeWarp ==
    /\ aug_pc = "warp"
    /\ \E idx \in 1..NSamples, warp_factor \in aug_rng.warp :
          /\ GridLen(Len(aug_X[idx]), warp_factor) > 0
          /\ aug_warp' = WarpLocals(aug_X[idx], warp_factor)
          /\ X_augmented' = Append(X_augmented, TimeWarped(aug_X[idx], warp_factor))
          /\ y_augmented' = Append(y_augmented, aug_y[idx])
          /\ aug_idx' = Append(aug_idx, <<"warp", idx>>)
    /\ AugAdvance
    /\ UNCHANGED <<aug_X, aug_y, aug_factor, aug_rng, aug_sample, n_segments,
                   new_order, aug_result, selVars, loadVars, genVars, trainVars>>

\* 1. Time warping: the grid np.linspace(0, seq_length-1, 0) is empty and
\* np.interp raises ValueError (array of sample points is empty).
TimeWarpRaises ==
    /\ aug_pc = "warp"
    /\ \E idx \in 1..NSamples, warp_factor \in aug_rng.warp :
          /\ GridLen(Len(aug_X[idx]), warp_factor) = 0
          /\ aug_warp' = WarpLocals(aug_X[idx], warp_factor)
          /\ aug_idx' = Append(aug_idx, <<"warp", idx>>)
    /\ aug_pc' = "raised"
    /\ UNCHANGED <<aug_X, aug_y, aug_factor, aug_rng, aug_k, X_augmented,
                   y_augmented, aug_sample, n_segments, new_order, aug_result,
                   selVars, loadVars, genVars, trainVars>>

\* 2. Magnitude warping: one iteration.
MagnitudeWarp ==
    /\ aug_pc = "scale"
    /\ \E idx \in 1..NSamples, scale_factors \in aug_rng.scale :
          /\ aug_X' = SourceAfter(aug_X, idx, Scaled(aug_X[idx], scale_factors))
          /\ X_augmented' = Append(X_augmented, Scaled(aug_X[idx], scale_factors))
          /\ y_augmented' = Append(y_augmented, aug_y[idx])
          /\ aug_idx' = Append(aug_idx, <<"scale", idx>>)
    /\ AugAdvance
    /\ UNCHANGED <<aug_y, aug_factor, aug_rng, aug_warp, aug_sample, n_segments,
                   new_order, aug_result, selVars, loadVars, genVars, trainVars>>

\* 3. Jittering: one iteration.
Jitter ==
    /\ aug_pc = "jitter"
    /\ \E idx \in 1..NSamples, noise \in aug_rng.noise :
          /\ aug_X' = SourceAfter(aug_X, idx, Jittered(aug_X[idx], noise))
          /\ X_augmented' = Append(X_augmented, Jittered(aug_X[idx], noise))
          /\ y_augmented' = Append(y_augmented, aug_y[idx])
          /\ aug_idx' = Append(aug_idx, <<"jitter", idx>>)
    /\ AugAdvance
    /\ UNCHANGED <<aug_y, aug_factor, aug_rng, aug_warp, aug_sample, n_segments,
                   new_order, aug_result, selVars, loadVars, genVars, trainVars>>

\* 4. Permutation: an iteration up to the shuffle loop: the source sample,
\* the number of segments, and new_order = original_order.copy().
PermutationBegin ==
    /\ aug_pc = "perm"
    /\ \E idx \in 1..NSamples, nseg \in SegmentCounts(Len(aug_X[1])) :
          /\ aug_sample' = aug_X[idx]
          /\ n_segments' = nseg
          /\ new_order' = OriginalOrder(nseg)
          /\ aug_idx' = Append(aug_idx, <<"perm", idx>>)
    /\ aug_pc' = "shuffle"
    /\ UNCHANGED <<aug_X, aug_y, aug_factor, aug_rng, aug_k, X_augmented,
                   y_augmented, aug_warp, aug_result, selVars, loadVars, genVars, trainVars>>

\* 4. Permutation: np.random.randint(2, min(6, seq_length//5)) has no value
\* to return and raises ValueError (low >= high).
PermutationRaises ==
    /\ aug_pc = "perm"
    /\ SegmentCounts(Len(aug_X[1])) = {}
    /\ \E idx \in 1..NSamples : aug_idx' = Append(aug_idx, <<"perm", idx>>)
    /\ aug_pc' = "raised"
    /\ UNCHANGED <<aug_X, aug_y, aug_factor, aug_rng, aug_k, X_augmented,
                   y_augmented, aug_warp, aug_sample, n_segments, new_order,
                   aug_result, selVars, loadVars, genVars, trainVars>>

\* 4. Permutation: one pass of the while loop.
PermutationShuffle ==
    /\ aug_pc = "shuffle"
    /\ ShuffleAgain(new_order, OriginalOrder(n_segments))
    /\ new_order' \in Shuffles(n_segments)
    /\ UNCHANGED <<aug_X, aug_y, aug_factor, aug_rng, aug_pc, aug_k, X_augmented,
                   y_augmented, aug_idx, aug_warp, aug_sample, n_segments,
                   aug_result, selVars, loadVars, genVars, trainVars>>

\* 4. Permutation: the loop is left, and the sample is rebuilt from the
\* segments in new_order and appended.
PermutationRebuild ==
    /\ aug_pc = "shuffle"
    /\ ~ShuffleAgain(new_order, OriginalOrder(n_segments))
    /\ X_augmented' = Append(X_augmented, Reassembled(aug_sample, n_segments, new_order))
    /\ y_augmented' = Append(y_augmented, aug_y[aug_idx[Len(aug_idx)][2]])
    /\ LET to == AfterIteration("perm", aug_k, SamplesPerTechnique(NSamples, aug_factor))
       IN  /\ aug_pc' = to[1]
           /\ aug_k' = to[2]
    /\ UNCHANGED <<aug_X, aug_y, aug_factor, aug_rng, aug_idx, aug_warp, aug_sample,
                   n_segments, new_order, aug_result, selVars, loadVars, genVars, trainVars>>

\* np.vstack of X and the synthetic samples, and of y and their labels.
Concatenate ==
    /\ aug_pc = "concat"
    /\ aug_result' = [X |-> aug_X \o X_augmented, y |-> aug_y \o y_augmented]
    /\ aug_pc' = "returned"
    /\ UNCHANGED <<aug_X, aug_y, aug_factor, aug_rng, aug_k, X_augmented,
                   y_augmented, aug_idx, aug_warp, aug_sample, n_segments,
                   new_order, selVars, loadVars, genVars, trainVars>>

----------------------------------------------------------------------------
(* model.py: create_data_generator                                         *)

\* Bounds of the generator model.
MaxGenSamples == 3
MaxBatch == 2

\* The sequence lengths of the data the generator is run over.
GenSeqLengths == {1, 2}

\* The epochs counted (the count stays at its last value afterwards).
EpochsCounted == 2

\* indices[i:i+batch_size], i from 0.
BatchIndices(idx, i, size) == SubSeq(idx, i + 1, Min(i + size, Len(idx)))

\* The mutated step of the for loop: one more than the batch size.
NextOffsetSkipping(i, size) == i + size + 1

\* for i in range(0, n_samples, batch_size): the value of i after i.
NextOffset(i, size) == i + size

\* The mutated test: augmentation also without augment_online.
ApplyOnlineEither(augment, coin) == augment \/ coin

\* if augment_online and np.random.random() < 0.5, coin being the outcome of
\* the comparison.
ApplyOnline(augment, coin) == augment /\ coin

\* What one sample of an augmented batch can become: np.random.choice of
\* 'jitter', 'scale', 'warp' or 'none' and the draws of the technique chosen
\* (a warp over an empty grid raises instead, see GenWarpRaises).
OnlineVariants(sample) ==
    {sample}
    \cup {Jittered(sample, noise) : noise \in NarrowDraws.noise}
    \cup {Scaled(sample, scale_factors) : scale_factors \in NarrowDraws.scale}
    \cup {TimeWarped(sample, w) :
            w \in {v \in NarrowDraws.warp : GridLen(Len(sample), v) > 0}}

\* for j in range(len(X_batch)): the batches the loop can build, each
\* sample with its own choice of technique.
RECURSIVE AugmentedBatches(_)
AugmentedBatches(X_batch) ==
    IF X_batch = <<>> THEN {<<>>}
    ELSE {<<sample>> \o rest : sample \in OnlineVariants(Head(X_batch)),
                               rest \in AugmentedBatches(Tail(X_batch))}

NoBatch == [X |-> <<>>, y |-> <<>>, idx |-> <<>>]

GenInit ==
    /\ \E n \in 0..MaxGenSamples, L \in GenSeqLengths :
          /\ gen_X = InputX(n, L)
          /\ gen_y = InputY(n)
          /\ indices = [k \in 1..n |-> k]
    /\ batch_size \in 1..MaxBatch
    /\ augment_online \in BOOLEAN
    /\ gen_i = 0
    /\ gen_pc = "created"
    /\ gen_batch = NoBatch
    /\ gen_pass = <<>>
    /\ gen_epoch = 0
    /\ gen_waiting = FALSE

GenIdle ==
    /\ gen_X = <<>>
    /\ gen_y = <<>>
    /\ indices = <<>>
    /\ batch_size = 0
    /\ augment_online = FALSE
    /\ gen_i = 0
    /\ gen_pc = "idle"
    /\ gen_batch = NoBatch
    /\ gen_pass = <<>>
    /\ gen_epoch = 0
    /\ gen_waiting = FALSE

\* The caller's next(): the generator starts, or resumes after its yield
\* with the next value of i.
Pull ==
    /\ ~gen_waiting
    /\ gen_pc \in {"created", "yielded"}
    /\ gen_waiting' = TRUE
    /\ gen_pc' = IF gen_pc = "created" THEN "while" ELSE "for"
    /\ gen_i' = IF gen_pc = "created" THEN gen_i ELSE NextOffset(gen_i, batch_size)
    /\ UNCHANGED <<gen_X, gen_y, batch_size, augment_online, indices, gen_batch,
                   gen_pass, gen_epoch, selVars, loadVars, augVars, trainVars>>

\* while True: np.random.shuffle(indices), and the for loop starts.
Shuffle ==
    /\ gen_waiting
    /\ gen_pc = "while"
    /\ indices' \in InjectiveSeqs(1..Len(gen_X), Len(gen_X))
    /\ gen_i' = 0
    /\ gen_pc' = "for"
    /\ gen_pass' = <<>>
    /\ gen_epoch' = Min(gen_epoch + 1, EpochsCounted)
    /\ UNCHANGED <<gen_X, gen_y, batch_size, augment_online, gen_batch,
                   gen_waiting, selVars, loadVars, augVars, trainVars>>

\* The range of the for loop is used up: back to the top of while True.
PassEnd ==
    /\ gen_waiting
    /\ gen_pc = "for"
    /\ gen_i >= Len(gen_X)
    /\ gen_pc' = "while"
    /\ UNCHANGED <<gen_X, gen_y, batch_size, augment_online, indices, gen_i,
                   gen_batch, gen_pass, gen_epoch, gen_waiting, selVars, loadVars,
                   augVars, trainVars>>

\* One pass of the for loop that yields the batch as it is.
YieldBatch ==
    /\ gen_waiting
    /\ gen_pc = "for"
    /\ gen_i < Len(gen_X)
    /\ \E coin \in BOOLEAN : ~ApplyOnline(augment_online, coin)
    /\ LET batch_indices == BatchIndices(indices, gen_i, batch_size)
       IN  /\ gen_batch' = [X   |-> [j \in 1..Len(batch_indices) |-> gen_X[batch_indices[j]]],
                            y   |-> [j \in 1..Len(batch_indices) |-> gen_y[batch_indices[j]]],
                            idx |-> batch_indices]
           /\ gen_pass' = Append(gen_pass, batch_indices)
    /\ gen_pc' = "yielded"
    /\ gen_waiting' = FALSE
    /\ UNCHANGED <<gen_X, gen_y, batch_size, augment_online, indices, gen_i,
                   gen_epoch, selVars, loadVars, augVars, trainVars>>

\* One pass of the for loop that augments every sample of the batch and
\* yields it.
YieldAugmented ==
    /\ gen_waiting
    /\ gen_pc = "for"
    /\ gen_i < Len(gen_X)
    /\ \E coin \in BOOLEAN : ApplyOnline(augment_online, coin)
    /\ LET batch_indices == BatchIndices(indices, gen_i, batch_size)
           X_batch == [j \in 1..Len(batch_indices) |-> gen_X[batch_indices[j]]]
       IN  /\ \E X_batch_aug \in AugmentedBatches(X_batch) :
                 gen_batch' = [X   |-> X_batch_aug,
                               y   |-> [j \in 1..Len(batch_indices) |->
                                           gen_y[batch_indices[j]]],
                               idx |-> batch_indices]
           /\ gen_pass' = Append(gen_pass, batch_indices)
    /\ gen_pc' = "yielded"
    /\ gen_waiting' = FALSE
    /\ UNCHANGED <<gen_X, gen_y, batch_size, augment_online, indices, gen_i,
                   gen_epoch, selVars, loadVars, augVars, trainVars>>

\* One pass of the for loop in which a sample draws 'warp' and a factor that
\* leaves the grid empty: np.interp raises ValueError out of the generator.
GenWarpRaises ==
    /\ gen_waiting
    /\ gen_pc = "for"
    /\ gen_i < Len(gen_X)
    /\ \E coin \in BOOLEAN : ApplyOnline(augment_online, coin)
    /\ \E w \in NarrowDraws.warp : GridLen(Len(gen_X[1]), w) = 0
    /\ gen_pc' = "raised"
    /\ gen_waiting' = FALSE
    /\ UNCHANGED <<gen_X, gen_y, batch_size, augment_online, indices, gen_i,
                   gen_batch, gen_pass, gen_epoch, selVars, loadVars, augVars, trainVars>>

----------------------------------------------------------------------------
(* model.py: train_and_evaluate and export_to_tflite                       *)

\* Bound of the dataset sizes load_data hands to train_and_evaluate.
MaxTrainSamples == 12

\* The sequence lengths of the datasets: too short for the permutation and
\* for the third convolution, and long enough for both.
TrainSeqLengths == {14, 30}

\* batch_size=32 of both generators and of the steps per epoch.
TrainBatchSize == 32

\* test_size=0.2, as the fraction 1/TestShare.
TestShare == 5

\* augmentation_factor=3
TrainAugmentationFactor == 3

\* kernel_size=3 and pool_size=2 of the three convolution blocks.
KernelSize == 3
PoolSize == 2

\* train_test_split: ceil(test_size * n) test samples, the rest for training.
TestCount(n) == (n + TestShare - 1) \div TestShare
TrainCount(n) == n - TestCount(n)

\* The steps left after one Conv1D (valid padding); below 1 the layer cannot
\* be built.
AfterConv(steps) == steps - KernelSize + 1
AfterPool(steps) == steps \div PoolSize

\* create_model can be built: each of the three convolutions has at least
\* kernel_size steps to work on.
ModelBuildable(seq_length) ==
    LET s1 == AfterPool(AfterConv(seq_length))
        s2 == AfterPool(AfterConv(s1))
    IN  /\ seq_length >= KernelSize
        /\ s1 >= KernelSize
        /\ s2 >= KernelSize

\* apply_augmentation(X_train, y_train, 3) returns: no synthetic sample is
\* asked for, or the permutation can draw its number of segments.
AugmentationReturns(n_train, seq_length) ==
    \/ SamplesPerTechnique(n_train, TrainAugmentationFactor) = 0
    \/ SegmentCounts(seq_length) # {}

\* len(X_test) // 32 or 1
ValidationSteps(n_test) ==
    IF n_test \div TrainBatchSize = 0 THEN 1 ELSE n_test \div TrainBatchSize

\* The steps of export_to_tflite that can fail.
ExportSteps == {"convert", "write"}

\* export_to_tflite has no handler and train_and_evaluate calls it bare: a
\* failure leaves both functions as an exception.
ExportFailure(step) == [pc |-> "raised", log |-> <<>>]

NoTrainResult == [returned |-> FALSE, model |-> "none", history |-> FALSE,
                  class_names |-> FALSE]

TrainInit ==
    /\ tr_pc = "start"
    /\ tr_shape = [n |-> 0, L |-> 0]
    /\ tr_split = [train |-> 0, test |-> 0]
    /\ tr_aug_n = 0
    /\ tr_steps = [steps_per_epoch |-> 0, validation_steps |-> 0]
    /\ tr_model = "none"
    /\ tr_files = {}
    /\ tr_log = <<>>
    /\ tr_raised_in = "none"
    /\ tr_result = NoTrainResult

TrainIdle ==
    /\ tr_pc = "idle"
    /\ tr_shape = [n |-> 0, L |-> 0]
    /\ tr_split = [train |-> 0, test |-> 0]
    /\ tr_aug_n = 0
    /\ tr_steps = [steps_per_epoch |-> 0, validation_steps |-> 0]
    /\ tr_model = "none"
    /\ tr_files = {}
    /\ tr_log = <<>>
    /\ tr_raised_in = "none"
    /\ tr_result = NoTrainResult

\* A step of train_and_evaluate raises: nothing catches it.
TrainRaise(step) ==
    /\ tr_pc' = "raised"
    /\ tr_raised_in' = step

\* X, y, class_names = load_data(file_path); n_samples, seq_length, n_features
\* = X.shape
TrainLoad ==
    /\ tr_pc = "start"
    /\ \E n \in 1..MaxTrainSamples, L \in TrainSeqLengths :
          tr_shape' = [n |-> n, L |-> L]
    /\ tr_pc' = "split"
    /\ tr_log' = Append(tr_log, "Original dataset shape")
    /\ UNCHANGED <<tr_split, tr_aug_n, tr_steps, tr_model, tr_files, tr_raised_in,
                   tr_result, selVars, loadVars, augVars, genVars>>

\* load_data raises (no file, no record kept, records of different lengths).
TrainLoadRaises ==
    /\ tr_pc = "start"
    /\ TrainRaise("load_data")
    /\ UNCHANGED <<tr_shape, tr_split, tr_aug_n, tr_steps, tr_model, tr_files,
                   tr_log, tr_result, selVars, loadVars, augVars, genVars>>

\* train_test_split(X, y, test_size=0.2, random_state=42)
TrainSplit ==
    /\ tr_pc = "split"
    /\ TrainCount(tr_shape.n) > 0
    /\ tr_split' = [train |-> TrainCount(tr_shape.n), test |-> TestCount(tr_shape.n)]
    /\ tr_pc' = "augment"
    /\ UNCHANGED <<tr_shape, tr_aug_n, tr_steps, tr_model, tr_files, tr_log,
                   tr_raised_in, tr_result, selVars, loadVars, augVars, genVars>>

\* train_test_split raises ValueError: the training set would be empty.
TrainSplitRaises ==
    /\ tr_pc = "split"
    /\ TrainCount(tr_shape.n) = 0
    /\ TrainRaise("train_test_split")
    /\ UNCHANGED <<tr_shape, tr_split, tr_aug_n, tr_steps, tr_model, tr_files,
                   tr_log, tr_result, selVars, loadVars, augVars, genVars>>

\* X_train_aug, y_train_aug = apply_augmentation(X_train, y_train, 3)
TrainAugment ==
    /\ tr_pc = "augment"
    /\ AugmentationReturns(tr_split.train, tr_shape.L)
    /\ tr_aug_n' = tr_split.train
                   + 4 * SamplesPerTechnique(tr_split.train, TrainAugmentationFactor)
    /\ tr_pc' = "create_model"
    /\ tr_log' = tr_log \o <<"Applying data augmentation", "Augmented dataset shape">>
    /\ UNCHANGED <<tr_shape, tr_split, tr_steps, tr_model, tr_files, tr_raised_in,
                   tr_result, selVars, loadVars, augVars, genVars>>

\* apply_augmentation raises in its permutation loop.
TrainAugmentRaises ==
    /\ tr_pc = "augment"
    /\ ~AugmentationReturns(tr_split.train, tr_shape.L)
    /\ TrainRaise("apply_augmentation")
    /\ tr_log' = Append(tr_log, "Applying data augmentation")
    /\ UNCHANGED <<tr_shape, tr_split, tr_aug_n, tr_steps, tr_model, tr_files,
                   tr_result, selVars, loadVars, augVars, genVars>>

\* model = create_model(...); the two generators; steps_per_epoch and
\* validation_steps.
TrainCreateModel ==
    /\ tr_pc = "create_model"
    /\ ModelBuildable(tr_shape.L)
    /\ tr_model' = "compiled"
    /\ tr_steps' = [steps_per_epoch  |-> tr_aug_n \div TrainBatchSize,
                    validation_steps |-> ValidationSteps(tr_split.test)]
    /\ tr_pc' = "fit"
    /\ UNCHANGED <<tr_shape, tr_split, tr_aug_n, tr_files, tr_log, tr_raised_in,
                   tr_result, selVars, loadVars, augVars, genVars>>

\* create_model raises: a convolution is left with fewer steps than its
\* kernel.
TrainCreateModelRaises ==
    /\ tr_pc = "create_model"
    /\ ~ModelBuildable(tr_shape.L)
    /\ TrainRaise("create_model")
    /\ UNCHANGED <<tr_shape, tr_split, tr_aug_n, tr_steps, tr_model, tr_files,
                   tr_log, tr_result, selVars, loadVars, augVars, genVars>>

\* history = model.fit(...); model.evaluate, model.predict and the plot of
\* the history.
TrainFit ==
    /\ tr_pc = "fit"
    /\ tr_model' = "trained"
    /\ tr_files' = tr_files \cup {"training_history.png"}
    /\ tr_log' = Append(tr_log, "Test accuracy")
    /\ tr_pc' = "save"
    /\ UNCHANGED <<tr_shape, tr_split, tr_aug_n, tr_steps, tr_raised_in, tr_result,
                   selVars, loadVars, augVars, genVars>>

\* model.save(...h5) and the message that follows.
TrainSave ==
    /\ tr_pc = "save"
    /\ tr_files' = tr_files \cup {"classifier.h5"}
    /\ tr_log' = Append(tr_log, "Model saved")
    /\ tr_pc' = "export"
    /\ UNCHANGED <<tr_shape, tr_split, tr_aug_n, tr_steps, tr_model, tr_raised_in,
                   tr_result, selVars, loadVars, augVars, genVars>>

\* model.save raises (the file cannot be written).
TrainSaveRaises ==
    /\ tr_pc = "save"
    /\ TrainRaise("model.save")
    /\ UNCHANGED <<tr_shape, tr_split, tr_aug_n, tr_steps, tr_model, tr_files,
                   tr_log, tr_result, selVars, loadVars, augVars, genVars>>

\* export_to_tflite: the conversion, the write of the file and the message.
ExportToTflite ==
    /\ tr_pc = "export"
    /\ tr_files' = tr_files \cup {"classifier.tflite"}
    /\ tr_log' = Append(tr_log, "TensorFlow Lite model saved")
    /\ tr_pc' = "export_done"
    /\ UNCHANGED <<tr_shape, tr_split, tr_aug_n, tr_steps, tr_model, tr_raised_in,
                   tr_result, selVars, loadVars, augVars, genVars>>

\* export_to_tflite fails: converter.convert() raises, or open/write does.
ExportToTfliteFails ==
    /\ tr_pc = "export"
    /\ \E step \in ExportSteps :
          /\ tr_raised_in' = step
          /\ tr_pc' = ExportFailure(step).pc
          /\ tr_log' = tr_log \o ExportFailure(step).log
    /\ UNCHANGED <<tr_shape, tr_split, tr_aug_n, tr_steps, tr_model, tr_files,
                   tr_result, selVars, loadVars, augVars, genVars>>

\* return model, history, class_names
TrainReturn ==
    /\ tr_pc = "export_done"
    /\ tr_result' = [returned |-> TRUE, model |-> tr_model, history |-> TRUE,
                     class_names |-> TRUE]
    /\ tr_pc' = "returned"
    /\ UNCHANGED <<tr_shape, tr_split, tr_aug_n, tr_steps, tr_model, tr_files,
                   tr_log, tr_raised_in, selVars, loadVars, augVars, genVars>>

----------------------------------------------------------------------------
(* Specifications                                                          *)

InitSelect == SelInit /\ LoadIdle /\ AugIdle /\ GenIdle /\ TrainIdle

NextSelect == SelectAll \/ SelectSample

SpecSelect == InitSelect /\ [][NextSelect]_vars

InitLoad == LoadInit /\ SelIdle /\ AugIdle /\ GenIdle /\ TrainIdle

NextLoad == LoadSkip \/ LoadKeep \/ LoadRaggedError \/ LoadEmptyError \/ LoadReturn

SpecLoad == InitLoad /\ [][NextLoad]_vars

InitAug == AugInit /\ SelIdle /\ LoadIdle /\ GenIdle /\ TrainIdle

NextAug ==
    \/ TimeWarp \/ TimeWarpRaises \/ MagnitudeWarp \/ Jitter
    \/ PermutationBegin \/ PermutationRaises \/ PermutationShuffle
    \/ PermutationRebuild \/ Concatenate

SpecAug == InitAug /\ [][NextAug]_vars

InitGen == GenInit /\ SelIdle /\ LoadIdle /\ AugIdle /\ TrainIdle

\* The steps of the generator itself, between a pull and the yield.
GenStep == Shuffle \/ PassEnd \/ YieldBatch \/ YieldAugmented \/ GenWarpRaises

NextGen == Pull \/ GenStep

SpecGen == InitGen /\ [][NextGen]_vars

\* Once pulled, the generator runs: its code is never held back.  The caller
\* may stop pulling.
FairSpecGen == SpecGen /\ WF_vars(GenStep)

InitTrain == TrainInit /\ SelIdle /\ LoadIdle /\ AugIdle /\ GenIdle

NextTrain ==
    \/ TrainLoad \/ TrainLoadRaises
    \/ TrainSplit \/ TrainSplitRaises
    \/ TrainAugment \/ TrainAugmentRaises
    \/ TrainCreateModel \/ TrainCreateModelRaises
    \/ TrainFit
    \/ TrainSave \/ TrainSaveRaises
    \/ ExportToTflite \/ ExportToTfliteFails
    \/ TrainReturn

SpecTrain == InitTrain /\ [][NextTrain]_vars

----------------------------------------------------------------------------
(* Claims                                                                  *)

\* The positions of the records of data whose number of coordinate pairs
\* equals the length they declare, in input order.
MatchingPositions(data) ==
    LET keep == {k \in 1..Len(data) : Len(data[k].coordinates) = data[k].sequenceLength}
    IN  CHOOSE s \in [1..Cardinality(keep) -> keep] :
            \A a, b \in 1..Cardinality(keep) : a < b => s[a] < s[b]

\* The class name a one-hot row stands for.
LabelOf(row, classes) == classes[CHOOSE c \in 1..Len(row) : row[c] = 1]

\* C1 (as claimed): once load_data has ended over a file with records whose
\* count matches, it has returned, and the feature tensor holds exactly the
\* matching records, normalized, in input order, each with its own
\* activityType as label; the mismatched records are absent and no error came
\* of them.
C1_LoadKeepsMatchingRecords ==
    (ld_pc \in {"returned", "raised"} /\ MatchingPositions(ld_data) # <<>>) =>
        LET pos == MatchingPositions(ld_data)
        IN  /\ ld_pc = "returned"
            /\ Len(ld_result.X) = Len(pos)
            /\ Len(ld_result.y) = Len(pos)
            /\ \A k \in 1..Len(pos) :
                  /\ ld_result.X[k] = Normalize(ld_data[pos[k]].coordinates)
                  /\ LabelOf(ld_result.y[k], ld_result.classes)
                        = ld_data[pos[k]].activityType

\* C5: select_random_walking_sequences never raises; with fewer than n walking
\* sequences it returns all of them and warns, otherwise it returns exactly n;
\* what it returns are distinct elements of data, each of type walking.
C5_SelectDegradesToAvailable ==
    /\ sel_pc # "raised"
    /\ sel_pc = "returned" =>
          LET walking == {k \in 1..Len(sel_data) : sel_data[k] = "walking"}
          IN  /\ Range(sel_result) \subseteq walking
              /\ Cardinality(Range(sel_result)) = Len(sel_result)
              /\ IF Cardinality(walking) < sel_n
                 THEN /\ Range(sel_result) = walking
                      /\ sel_warned
                 ELSE Len(sel_result) = sel_n

\* Ten sequences were asked of a pool of three: three came back, with a warning.
C5_Witness ==
    /\ sel_pc = "returned"
    /\ sel_n = 10
    /\ Len(sel_result) = 3
    /\ sel_warned

\* The sequence length of the input of apply_augmentation.
SeqLength == IF aug_X = <<>> THEN 0 ELSE Len(aug_X[1])

\* C2 (as claimed): apply_augmentation returns, and what it returns has
\* n + 4 * floor(n (f - 1) / 4) samples, floor(n (f - 1) / 4) of each
\* technique, the label of every synthetic sample being that of the index it
\* was drawn from.
C2_AugmentedCountAndLabels ==
    aug_pc \in {"returned", "raised"} =>
        LET n == Len(InputY(NSamples))
            per == (n * (aug_factor - 1)) \div 4
        IN  /\ aug_pc = "returned"
            /\ Len(aug_result.X) = n + 4 * per
            /\ Len(aug_result.y) = n + 4 * per
            /\ \A tech \in {"warp", "scale", "jitter", "perm"} :
                  Cardinality({k \in 1..Len(aug_idx) : aug_idx[k][1] = tech}) = per
            /\ \A k \in 1..(4 * per) :
                  aug_result.y[n + k] = InputY(n)[aug_idx[k][2]]

\* C3: once the shuffle loop of a permutation iteration is left, new_order is
\* not the identity order, and the sample appended is not the source sample.
C3_NeverIdentityOrder ==
    (aug_pc \in {"perm", "concat", "returned"} /\ n_segments >= 2) =>
        /\ new_order # [i \in 1..n_segments |-> i]
        /\ X_augmented[Len(X_augmented)] # aug_sample

\* A sample cut into five segments was rebuilt and returned.
C3_Witness ==
    /\ aug_pc = "returned"
    /\ n_segments = 5
    /\ Len(aug_result.X) = 5

\* C4 (as claimed): after every time-warp iteration the grid and the slice of
\* the sample have the same length m = min(int(L * factor), L), 1 <= m <= L,
\* no error was raised and the sample appended has L steps.
C4_WarpGridWithinSample ==
    (aug_warp # NoWarp) =>
        /\ aug_warp.grid = aug_warp.slice
        /\ aug_warp.grid = Min((SeqLength * aug_warp.factor) \div 100, SeqLength)
        /\ 1 <= aug_warp.grid
        /\ aug_warp.grid <= SeqLength
        /\ aug_pc = "raised" => aug_idx[Len(aug_idx)][1] # "warp"
        /\ \A k \in 1..Len(X_augmented) : Len(X_augmented[k]) = SeqLength

\* C10: X and y are never written by apply_augmentation, and the first n rows
\* of what it returns are X and y.
C10_OriginalsKept ==
    /\ aug_X = InputX(NSamples, SeqLength)
    /\ aug_y = InputY(NSamples)
    /\ aug_pc = "returned" =>
          /\ Len(aug_result.X) >= NSamples
          /\ SubSeq(aug_result.X, 1, NSamples) = InputX(NSamples, SeqLength)
          /\ SubSeq(aug_result.y, 1, NSamples) = InputY(NSamples)

\* Three samples came back with four synthetic ones after them.
C10_Witness ==
    /\ aug_pc = "returned"
    /\ NSamples = 3
    /\ Len(aug_result.X) = 7

\* The batches of a pass, one after the other.
RECURSIVE Flattened(_)
Flattened(batches) ==
    IF batches = <<>> THEN <<>>
    ELSE Head(batches) \o Flattened(Tail(batches))

\* ceil(n / size)
CeilDiv(n, size) == (n + size - 1) \div size

\* A pass of the generator has run to its end: the for loop is used up and
\* the generator is back at the top of while True.
PassComplete == gen_pc = "while" /\ gen_epoch >= 1

\* C6: within a pass the batches yielded are the successive slices of
\* batch_size of the shuffled indices; once the pass is complete its
\* ceil(n/batch_size) batches hold every sample index exactly once and every
\* batch but the last has batch_size samples; the labels yielded with a batch
\* are the labels of the batch's indices.
C6_PassYieldsEachIndexOnce ==
    gen_pc # "idle" =>
        LET n == Len(gen_X)
            yielded == Flattened(gen_pass)
        IN  /\ Range(indices) = 1..n
            /\ \A k \in 1..Len(gen_pass) :
                  gen_pass[k] = SubSeq(indices, (k - 1) * batch_size + 1,
                                       Min(k * batch_size, n))
            /\ \A a, b \in 1..Len(yielded) : yielded[a] = yielded[b] => a = b
            /\ PassComplete =>
                  /\ Len(gen_pass) = CeilDiv(n, batch_size)
                  /\ Range(yielded) = 1..n
                  /\ Len(yielded) = n
                  /\ \A k \in 1..(Len(gen_pass) - 1) : Len(gen_pass[k]) = batch_size
            /\ gen_pc = "yielded" =>
                  /\ gen_batch.idx = gen_pass[Len(gen_pass)]
                  /\ Len(gen_batch.X) = Len(gen_batch.idx)
                  /\ Len(gen_batch.idx) \in 1..batch_size
                  /\ gen_batch.y = [j \in 1..Len(gen_batch.idx) |->
                                       gen_y[gen_batch.idx[j]]]

\* A second pass over three samples in batches of two is complete, the
\* first batch of two and the last of one, with online augmentation.
C6_Witness ==
    /\ PassComplete
    /\ gen_epoch = EpochsCounted
    /\ Len(gen_X) = 3
    /\ batch_size = 2
    /\ augment_online
    /\ Len(gen_pass) = 2
    /\ Len(gen_pass[1]) = 2
    /\ Len(gen_pass[2]) = 1
    /\ indices # <<1, 2, 3>>

\* C7: whatever the dataset size (0 included) and the batch size, every
\* pull by the caller eventually returns: the generator hands back the next
\* batch (or the error raised inside it) and waits for the next pull.
C7_EveryPullReturns == gen_waiting ~> ~gen_waiting

\* C8: a batch yielded by a generator created with augment_online=False has
\* exactly the source rows X[batch_indices], in every pass.
C8_NoAugmentationWhenOffline ==
    (gen_pc = "yielded" /\ ~augment_online) =>
        gen_batch.X = [j \in 1..Len(gen_batch.idx) |-> gen_X[gen_batch.idx[j]]]

\* A batch of two samples yielded in a later pass without augmentation.
C8_Witness ==
    /\ gen_pc = "yielded"
    /\ ~augment_online
    /\ gen_epoch = EpochsCounted
    /\ Len(gen_batch.X) = 2
    /\ gen_batch.idx[1] > gen_batch.idx[2]

\* C9: a failure of the TFLite export (the conversion or the write of the
\* file) is caught and logged, and train_and_evaluate still returns the
\* trained model, the history and the class names: it never ends in the
\* exception of the export, and what it returns after a failed export is the
\* trained model.
C9_ExportFailureNonFatal ==
    tr_raised_in \in ExportSteps =>
        /\ tr_pc # "raised"
        /\ Len(tr_log) > 0 /\ tr_log[Len(tr_log)] = "export failed"
        /\ tr_pc = "returned" => (tr_result.returned /\ tr_result.model = "trained")

\* The record at position k of the returned tensor: the k-th record of the
\* file that passes the length check.
SourceOf(data, k) == data[MatchingPositions(data)[k]]

\* A value of the tensor, a fraction, lies in [0, 1].
InUnitInterval(v) == 0 <= v[1] /\ v[1] <= v[2]

\* C11: in the tensor load_data returns, every entry of a record whose
\* coordinates hold a value above 1.0 lies in [0, 1], and a record whose
\* maximum is at most 1.0 is stored unchanged.
C11_NormalizedIntoUnitInterval ==
    ld_pc = "returned" =>
        \A k \in 1..Len(ld_result.X) :
            LET coords == SourceOf(ld_data, k).coordinates
            IN  IF CoordMax(coords) > Unit
                THEN \A t \in 1..Len(ld_result.X[k]), c \in 1..2 :
                        InUnitInterval(ld_result.X[k][t][c])
                ELSE ld_result.X[k] =
                        [t \in 1..Len(coords) |->
                            <<Frac(coords[t][1], Unit), Frac(coords[t][2], Unit)>>]

\* C14: the sequences load_data keeps after its length check all have the
\* same number of time steps, so that what it returns is a rectangular
\* tensor of samples x time steps x 2, whatever lengths the records declare.
C14_KeptSequencesRectangular ==
    /\ \A a, b \in 1..Len(ld_X) : Len(ld_X[a]) = Len(ld_X[b])
    /\ ld_pc = "returned" =>
          /\ ld_result.dtype = "float"
          /\ \A k \in 1..Len(ld_result.X) : Len(ld_result.X[k]) = Len(ld_result.X[1])

\* The segments of the sample of the current permutation iteration, in their
\* original order.
SegmentsInOrder == Reassembled(aug_sample, n_segments, OriginalOrder(n_segments))

\* C13: the permutation never raises; the number of segments it draws is
\* between 2 and 5; the segments are contiguous and together hold every time
\* step once; and the rebuilt sample is as long as the source and holds
\* every source row once.
C13_PermutationWellFormed ==
    /\ aug_pc = "raised" => aug_idx[Len(aug_idx)][1] # "perm"
    /\ n_segments # 0 =>
          /\ n_segments \in 2..5
          /\ SegmentPoint(SeqLength, n_segments, 0) = 0
          /\ SegmentPoint(SeqLength, n_segments, n_segments) = SeqLength
          /\ \A i \in 1..n_segments :
                SegmentPoint(SeqLength, n_segments, i - 1)
                    <= SegmentPoint(SeqLength, n_segments, i)
          /\ SegmentsInOrder = aug_sample
    /\ (aug_pc \in {"perm", "concat", "returned"} /\ n_segments # 0) =>
          LET new_sample == X_augmented[Len(X_augmented)]
          IN  /\ Len(new_sample) = Len(aug_sample)
              /\ Range(new_sample) = Range(aug_sample)

\* The number of time-warp iterations so far.
WarpCount == Cardinality({k \in 1..Len(aug_idx) : aug_idx[k][1] = "warp"})

\* C15: a time warp whose int(L * factor) is at least L (every factor from
\* 1.0 on) appends a sample equal to its source; one whose int(L * factor) is
\* below L appends a different sample, the first int(L * factor) steps of
\* the source stretched over the whole length: it starts at the first step,
\* ends at step int(L * factor) and stays between the two.
C15_WarpIdentityFromOne ==
    (aug_warp # NoWarp /\ aug_warp.grid > 0) =>
        LET source == aug_X[aug_idx[WarpCount][2]]
            warped == X_augmented[WarpCount]
            m      == aug_warp.steps
        IN  IF m >= SeqLength
            THEN warped = source
            ELSE /\ warped # source
                 /\ warped[1] = source[1]
                 /\ warped[SeqLength] = source[m]
                 /\ \A t \in 1..SeqLength, c \in 1..2 :
                       source[1][c] <= warped[t][c] /\ warped[t][c] <= source[m][c]

\* A sample of thirty steps was warped with the factor 1.1 and came back as
\* it was.
C15_Witness ==
    /\ aug_pc = "returned"
    /\ SeqLength = 30
    /\ aug_warp.factor = 110
    /\ aug_warp.steps = 33
    /\ aug_result.X[2] = aug_result.X[1]

============================================================================
